---- MODULE Spec2Model ----
(***************************************************************************)
(* Model of docker/presidio/generate-configs.py: the command line tool     *)
(* that validates a requested language list against a language registry    *)
(* and writes nlp-config.yaml, analyzer-config.yaml,                       *)
(* recognizers-config.yaml and install-models.sh.                          *)
(*                                                                         *)
(* A Python str that the program takes apart (the --languages value) is a  *)
(* sequence of one-character strings; every other str is a TLA+ string.    *)
(* A dict is a function whose DOMAIN is its key set, so "key in d" is      *)
(* "key \in DOMAIN d" and a missing key is a KeyError.  A function that    *)
(* can raise returns [raised |-> <exception or "none">, value |-> <result>].*)
(***************************************************************************)
EXTENDS Integers, Sequences, FiniteSets, TLC

VARIABLES
    raw,         \* args.languages, the --languages value (sequence of characters)
    regFile,     \* what is stored at the path args.registry
    dirExists,   \* whether the directory args.output exists
    files,       \* the output files of args.output: name -> content
    executable,  \* names of the files carrying mode 0o755
    pc,          \* position of main()
    languages,   \* local variable `languages` of main()
    registry,    \* local variable `registry` of main()
    exitStatus,  \* exit status of the process, -1 while it runs
    error,       \* the condition that ended the run, "none" otherwise
    events,      \* file system operations of the current run, in order
    run,         \* number of the current invocation
    history      \* the output directory before the first run and after each
                 \* finished earlier run

vars == <<raw, regFile, dirExists, files, executable, pc, languages, registry,
          exitStatus, error, events, run, history>>

----------------------------------------------------------------------------
(* Bounds of the model *)

MaxArgLen == 3
MaxRuns == 2

Chars == {"e", "d", ",", " "}
Whitespace == {" "}
Codes == {"e", "d"}
PhoneContexts == {<<"telefon", "tel">>}
SpacyVersions == {"3.7.0"}

ModelName(code) == IF code = "e" THEN "en_core_web_lg" ELSE "de_core_news_lg"

NlpFile == "nlp-config.yaml"
AnalyzerFile == "analyzer-config.yaml"
RecognizersFile == "recognizers-config.yaml"
InstallFile == "install-models.sh"
FileNames == {NlpFile, AnalyzerFile, RecognizersFile, InstallFile}

----------------------------------------------------------------------------
(* Inputs *)

RawArgs == UNION {[1..n -> Chars] : n \in 0..MaxArgLen}

MkEntry(code, fields, ctx) ==
    [f \in fields |-> IF f = "model" THEN ModelName(code) ELSE ctx]

\* A language entry has the fields model and phone_context, only model, or
\* (a defective registry) none.
EntryFields == {{"model", "phone_context"}, {"model"}, {}}

EntriesOf(code) ==
    {MkEntry(code, fields, ctx) : fields \in EntryFields, ctx \in PhoneContexts}

LanguageMaps ==
    UNION {{m \in [K -> UNION {EntriesOf(c) : c \in Codes}] :
                \A k \in K : m[k] \in EntriesOf(k)} : K \in SUBSET Codes}

MkRegistry(fields, version, langs) ==
    [f \in fields |-> IF f = "spacy_version" THEN version ELSE langs]

Registries ==
    {MkRegistry(fields, version, langs) :
        fields \in SUBSET {"spacy_version", "languages"},
        version \in SpacyVersions, langs \in LanguageMaps}

RegistryFiles ==
    {[kind |-> "missing"], [kind |-> "malformed"]}
        \cup {[kind |-> "yaml", data |-> r] : r \in Registries}

StaleContent == [kind |-> "stale"]

\* The output directory before the first run: absent, empty, or holding the
\* four files of an earlier run.
EarlierOutputs == {{}, FileNames}

InitialDirs ==
    {[exists |-> FALSE, files |-> [f \in {} |-> StaleContent], executable |-> {}]}
        \cup {[exists |-> TRUE, files |-> [f \in S |-> StaleContent],
               executable |-> S \cap {InstallFile}] : S \in EarlierOutputs}

Unset == [f \in {} |-> ""]

----------------------------------------------------------------------------
(* str operations used on the --languages value *)

RECURSIVE str(_)
str(cs) == IF cs = <<>> THEN "" ELSE Head(cs) \o str(Tail(cs))

RECURSIVE split(_, _)
split(s, sep) ==
    IF \A i \in 1..Len(s) : s[i] # sep
    THEN <<s>>
    ELSE LET i == CHOOSE j \in 1..Len(s) :
                      s[j] = sep /\ \A k \in 1..(j - 1) : s[k] # sep
         IN <<SubSeq(s, 1, i - 1)>> \o split(SubSeq(s, i + 1, Len(s)), sep)

RECURSIVE lstrip(_)
lstrip(s) ==
    IF s # <<>> /\ Head(s) \in Whitespace THEN lstrip(Tail(s)) ELSE s

RECURSIVE rstrip(_)
rstrip(s) ==
    IF s # <<>> /\ s[Len(s)] \in Whitespace
    THEN rstrip(SubSeq(s, 1, Len(s) - 1)) ELSE s

\* Variant: only the leading whitespace is removed.
strip_leading(s) == lstrip(s)

strip(s) == rstrip(lstrip(s))

RECURSIVE join(_, _)
join(sep, lines) ==
    IF lines = <<>> THEN ""
    ELSE IF Len(lines) = 1 THEN lines[1]
    ELSE lines[1] \o sep \o join(sep, Tail(lines))

RECURSIVE parse_from(_)
parse_from(parts) ==
    IF parts = <<>> THEN <<>>
    ELSE IF strip(Head(parts)) # <<>>
         THEN <<str(strip(Head(parts)))>> \o parse_from(Tail(parts))
         ELSE parse_from(Tail(parts))

parse_languages(value) == parse_from(split(value, ","))

----------------------------------------------------------------------------
(* The functions of generate-configs.py *)

Return(v) == [raised |-> "none", value |-> v]
Raise(exc) == [raised |-> exc, value |-> <<>>]

\* load_registry: open() and yaml.safe_load() of the registry file.
load_registry(file) ==
    IF file.kind = "missing" THEN Raise("FileNotFoundError")
    ELSE IF file.kind = "malformed" THEN Raise("YAMLError")
    ELSE Return(file.data)

RECURSIVE unique(_)
unique(s) ==
    IF s = <<>> THEN <<>>
    ELSE LET front == unique(SubSeq(s, 1, Len(s) - 1))
         IN IF \E i \in 1..Len(front) : front[i] = s[Len(s)]
            THEN front ELSE Append(front, s[Len(s)])

\* Variant: the unknown codes are dropped and the run goes on.
validate_languages_lenient(langs, reg) ==
    IF "languages" \notin DOMAIN reg THEN Raise("KeyError")
    ELSE Return(SelectSeq(langs, LAMBDA lang : lang \in DOMAIN reg["languages"]))

\* Variant: a code is kept only the first time it occurs.
validate_languages_unique(langs, reg) ==
    IF "languages" \notin DOMAIN reg THEN Raise("KeyError")
    ELSE LET available == DOMAIN reg["languages"]
             invalid == SelectSeq(langs, LAMBDA lang : lang \notin available)
         IN IF invalid # <<>>
            THEN [raised |-> "SystemExit", value |-> invalid]
            ELSE Return(unique(langs))

\* validate_languages: SystemExit carries the unknown codes it reports.
validate_languages(langs, reg) ==
    IF "languages" \notin DOMAIN reg THEN Raise("KeyError")
    ELSE LET available == DOMAIN reg["languages"]
             valid == SelectSeq(langs, LAMBDA lang : lang \in available)
             invalid == SelectSeq(langs, LAMBDA lang : lang \notin available)
         IN IF invalid # <<>>
            THEN [raised |-> "SystemExit", value |-> invalid]
            ELSE Return(valid)

NerModelConfiguration ==
    [model_to_presidio_entity_mapping |->
        [PER |-> "PERSON", PERSON |-> "PERSON", LOC |-> "LOCATION",
         GPE |-> "LOCATION", ORG |-> "ORGANIZATION",
         persName |-> "PERSON", placeName |-> "LOCATION",
         geogName |-> "LOCATION", orgName |-> "ORGANIZATION",
         PS |-> "PERSON", LC |-> "LOCATION", OG |-> "ORGANIZATION",
         PRS |-> "PERSON", GPE_LOC |-> "LOCATION"],
     low_confidence_score_multiplier |-> "0.4",
     low_score_entity_names |-> <<"ORG">>,
     labels_to_ignore |->
        <<"O", "CARDINAL", "EVENT", "LANGUAGE", "LAW", "MONEY", "ORDINAL",
          "PERCENT", "PRODUCT", "QUANTITY", "WORK_OF_ART">>]

RECURSIVE nlp_models(_, _)
nlp_models(langs, reg) ==
    IF langs = <<>> THEN <<>>
    ELSE <<[lang_code |-> Head(langs),
            model_name |-> reg["languages"][Head(langs)]["model"]]>>
             \o nlp_models(Tail(langs), reg)

generate_nlp_config(langs, reg) ==
    IF \E i \in 1..Len(langs) : "model" \notin DOMAIN reg["languages"][langs[i]]
    THEN Raise("KeyError")
    ELSE Return([nlp_engine_name |-> "spacy",
                 models |-> nlp_models(langs, reg),
                 ner_model_configuration |-> NerModelConfiguration])

\* Variant: the language list is de-duplicated.
generate_analyzer_config_unique(langs) ==
    [supported_languages |-> unique(langs), default_score_threshold |-> 0]

generate_analyzer_config(langs) ==
    [supported_languages |-> langs, default_score_threshold |-> 0]

RECURSIVE spacy_langs(_)
spacy_langs(langs) ==
    IF langs = <<>> THEN <<>>
    ELSE <<[language |-> Head(langs)]>> \o spacy_langs(Tail(langs))

\* Variant: a missing phone_context becomes an empty context.
phone_entry_empty(lang, lang_config) ==
    IF "phone_context" \in DOMAIN lang_config
    THEN [language |-> lang, context |-> lang_config["phone_context"]]
    ELSE [language |-> lang, context |-> <<>>]

phone_entry(lang, lang_config) ==
    IF "phone_context" \in DOMAIN lang_config
    THEN [language |-> lang, context |-> lang_config["phone_context"]]
    ELSE [language |-> lang]

RECURSIVE phone_langs(_, _)
phone_langs(langs, reg) ==
    IF langs = <<>> THEN <<>>
    ELSE <<phone_entry(Head(langs), reg["languages"][Head(langs)])>>
             \o phone_langs(Tail(langs), reg)

Recognizer(name, langs) ==
    [name |-> name, supported_languages |-> langs, type |-> "predefined"]

generate_recognizers_config(langs, reg) ==
    [supported_languages |-> langs,
     global_regex_flags |-> 26,
     recognizers |->
        <<Recognizer("SpacyRecognizer", spacy_langs(langs)),
          Recognizer("EmailRecognizer", spacy_langs(langs)),
          Recognizer("PhoneRecognizer", phone_langs(langs, reg)),
          Recognizer("CreditCardRecognizer", spacy_langs(langs)),
          Recognizer("IbanRecognizer", spacy_langs(langs)),
          Recognizer("IpRecognizer", spacy_langs(langs))>>]

model_url(model, version) ==
    "https://github.com/explosion/spacy-models/releases/download/"
        \o model \o "-" \o version \o "/"
        \o model \o "-" \o version \o "-py3-none-any.whl"

\* Variant: no blank line closes a language's block.
RECURSIVE install_lines_dense(_, _, _)
install_lines_dense(lines, langs, reg) ==
    IF langs = <<>> THEN Append(lines, "echo \"All models installed successfully\"")
    ELSE LET lang == Head(langs)
             model == reg["languages"][lang]["model"]
             url == model_url(model, reg["spacy_version"])
         IN install_lines_dense(
                lines \o <<"echo \"Installing " \o model \o " for " \o lang \o "...\"",
                           "poetry run pip install --no-cache-dir " \o url>>,
                Tail(langs), reg)

RECURSIVE install_lines(_, _, _)
install_lines(lines, langs, reg) ==
    IF langs = <<>> THEN Append(lines, "echo \"All models installed successfully\"")
    ELSE LET lang == Head(langs)
             model == reg["languages"][lang]["model"]
             url == model_url(model, reg["spacy_version"])
         IN install_lines(
                lines \o <<"echo \"Installing " \o model \o " for " \o lang \o "...\"",
                           "poetry run pip install --no-cache-dir " \o url,
                           "">>,
                Tail(langs), reg)

generate_install_script(langs, reg) ==
    IF "spacy_version" \notin DOMAIN reg THEN Raise("KeyError")
    ELSE IF \E i \in 1..Len(langs) : "model" \notin DOMAIN reg["languages"][langs[i]]
    THEN Raise("KeyError")
    ELSE Return(join("\n", install_lines(<<"#!/bin/sh", "set -e", "">>, langs, reg)))

\* Variant: an existing file is left as it is.
open_x(fs, path, content) ==
    [f \in DOMAIN fs \cup {path} |-> IF f \in DOMAIN fs THEN fs[f] ELSE content]

\* open(path, "w") followed by a write: creates or truncates the file.
open_w(fs, path, content) ==
    [f \in DOMAIN fs \cup {path} |-> IF f = path THEN content ELSE fs[f]]

\* write_yaml: the file holds the YAML document of `data`.
write_yaml(fs, data, path) == open_w(fs, path, [kind |-> "yaml", doc |-> data])

----------------------------------------------------------------------------
(* main() *)

Dir == [exists |-> dirExists, files |-> files, executable |-> executable]

Init ==
    /\ raw \in RawArgs
    /\ regFile \in RegistryFiles
    /\ \E d \in InitialDirs :
          /\ dirExists = d.exists
          /\ files = d.files
          /\ executable = d.executable
          /\ history = <<d>>
    /\ pc = "parse_args"
    /\ languages = <<>>
    /\ registry = Unset
    /\ exitStatus = -1
    /\ error = "none"
    /\ events = <<>>
    /\ run = 1

\* sys.exit(1), or an exception nobody catches: the interpreter exits with 1.
Exit1(cond) ==
    /\ pc' = "done"
    /\ exitStatus' = 1
    /\ error' = cond

Inputs == <<raw, regFile, run, history>>

\* Parse languages: split on ",", strip, drop the empty entries.
ParseLanguages ==
    /\ pc = "parse_args"
    /\ languages' = parse_languages(raw)
    /\ IF languages' = <<>>
       THEN Exit1("EmptyLanguageList")
       ELSE pc' = "registry_exists" /\ UNCHANGED <<exitStatus, error>>
    /\ UNCHANGED <<Inputs, dirExists, files, executable, registry, events>>

\* Variant: the registry is opened without the existence check.
RegistryExistsUnchecked ==
    /\ pc = "registry_exists"
    /\ pc' = "load_registry"
    /\ UNCHANGED <<Inputs, dirExists, files, executable, languages, registry,
                   exitStatus, error, events>>

\* registry_path.exists()
RegistryExists ==
    /\ pc = "registry_exists"
    /\ IF regFile.kind = "missing"
       THEN Exit1("RegistryNotFound")
       ELSE pc' = "load_registry" /\ UNCHANGED <<exitStatus, error>>
    /\ UNCHANGED <<Inputs, dirExists, files, executable, languages, registry, events>>

\* registry = load_registry(registry_path)
LoadRegistry ==
    /\ pc = "load_registry"
    /\ events' = Append(events, "open_registry")
    /\ LET r == load_registry(regFile)
       IN IF r.raised # "none"
          THEN Exit1(r.raised) /\ UNCHANGED registry
          ELSE /\ registry' = r.value
               /\ pc' = "validate_languages"
               /\ UNCHANGED <<exitStatus, error>>
    /\ UNCHANGED <<Inputs, dirExists, files, executable, languages>>

\* languages = validate_languages(languages, registry)
ValidateLanguages ==
    /\ pc = "validate_languages"
    /\ LET r == validate_languages(languages, registry)
       IN IF r.raised = "SystemExit"
          THEN Exit1("UnknownLanguage") /\ UNCHANGED languages
          ELSE IF r.raised # "none"
          THEN Exit1(r.raised) /\ UNCHANGED languages
          ELSE /\ languages' = r.value
               /\ pc' = "mkdir"
               /\ UNCHANGED <<exitStatus, error>>
    /\ UNCHANGED <<Inputs, dirExists, files, executable, registry, events>>

\* output_dir.mkdir(parents=True, exist_ok=True)
Mkdir ==
    /\ pc = "mkdir"
    /\ dirExists' = TRUE
    /\ events' = Append(events, "mkdir")
    /\ pc' = "nlp_config"
    /\ UNCHANGED <<Inputs, files, executable, languages, registry, exitStatus, error>>

WriteNlpConfig ==
    /\ pc = "nlp_config"
    /\ LET r == generate_nlp_config(languages, registry)
       IN IF r.raised # "none"
          THEN Exit1(r.raised) /\ UNCHANGED <<files, events>>
          ELSE /\ files' = write_yaml(files, r.value, NlpFile)
               /\ events' = Append(events, NlpFile)
               /\ pc' = "analyzer_config"
               /\ UNCHANGED <<exitStatus, error>>
    /\ UNCHANGED <<Inputs, dirExists, executable, languages, registry>>

\* Variant: the analyzer config goes to the path of the NLP config.
WriteAnalyzerConfigWrongPath ==
    /\ pc = "analyzer_config"
    /\ files' = write_yaml(files, generate_analyzer_config(languages), NlpFile)
    /\ events' = Append(events, NlpFile)
    /\ pc' = "recognizers_config"
    /\ UNCHANGED <<Inputs, dirExists, executable, languages, registry, exitStatus, error>>

WriteAnalyzerConfig ==
    /\ pc = "analyzer_config"
    /\ files' = write_yaml(files, generate_analyzer_config(languages), AnalyzerFile)
    /\ events' = Append(events, AnalyzerFile)
    /\ pc' = "recognizers_config"
    /\ UNCHANGED <<Inputs, dirExists, executable, languages, registry, exitStatus, error>>

WriteRecognizersConfig ==
    /\ pc = "recognizers_config"
    /\ files' = write_yaml(files, generate_recognizers_config(languages, registry),
                           RecognizersFile)
    /\ events' = Append(events, RecognizersFile)
    /\ pc' = "install_script"
    /\ UNCHANGED <<Inputs, dirExists, executable, languages, registry, exitStatus, error>>

\* The script is written, made executable, and main() returns.
WriteInstallScript ==
    /\ pc = "install_script"
    /\ LET r == generate_install_script(languages, registry)
       IN IF r.raised # "none"
          THEN Exit1(r.raised) /\ UNCHANGED <<files, executable, events>>
          ELSE /\ files' = open_w(files, InstallFile, [kind |-> "text", text |-> r.value])
               /\ executable' = executable \cup {InstallFile}
               /\ events' = Append(events, InstallFile)
               /\ pc' = "done"
               /\ exitStatus' = 0
               /\ UNCHANGED error
    /\ UNCHANGED <<Inputs, dirExists, languages, registry>>

\* The tool is invoked again with the same arguments and the same registry.
Rerun ==
    /\ pc = "done"
    /\ run < MaxRuns
    /\ run' = run + 1
    /\ history' = Append(history, Dir)
    /\ pc' = "parse_args"
    /\ languages' = <<>>
    /\ registry' = Unset
    /\ exitStatus' = -1
    /\ error' = "none"
    /\ events' = <<>>
    /\ UNCHANGED <<raw, regFile, dirExists, files, executable>>

Next ==
    \/ ParseLanguages
    \/ RegistryExists
    \/ LoadRegistry
    \/ ValidateLanguages
    \/ Mkdir
    \/ WriteNlpConfig
    \/ WriteAnalyzerConfig
    \/ WriteRecognizersConfig
    \/ WriteInstallScript
    \/ Rerun

Spec == Init /\ [][Next]_vars

----------------------------------------------------------------------------
(* Vocabulary of the properties *)

Parsed == parse_languages(raw)
Loaded == regFile.kind = "yaml"
HasLanguages == Loaded /\ "languages" \in DOMAIN regFile.data
Known == IF HasLanguages THEN DOMAIN regFile.data["languages"] ELSE {}
Before == history[Len(history)]
Written == {events[i] : i \in 1..Len(events)} \cap FileNames
NothingWritten == Written = {} /\ Dir = Before
NoMkdir == \A i \in 1..Len(events) : events[i] # "mkdir"
NoRegistryRead == \A i \in 1..Len(events) : events[i] # "open_registry"
Terminated == pc = "done"
Doc(name) == files[name].doc
Langs(entries) == [i \in 1..Len(entries) |-> entries[i].language]

\* C1: every terminated run has written all four files or none of them.
AllOrNothing ==
    Terminated => Written \in {{}, FileNames}

\* C2: a requested code that is no key of the registry's languages ends the
\* run with status 1 before the mkdir and before any write; the output
\* directory stays as the run found it.
UnknownLanguageWritesNothing ==
    LET stopped == /\ NothingWritten
                   /\ NoMkdir
                   /\ pc \in {"parse_args", "registry_exists", "load_registry",
                              "validate_languages", "done"}
                   /\ Terminated => exitStatus = 1
    IN stopped \/ ~(HasLanguages /\ \E i \in 1..Len(Parsed) : Parsed[i] \notin Known)

UnknownLanguageWitness ==
    /\ Terminated
    /\ error = "UnknownLanguage"
    /\ Parsed = <<"e", "d">>
    /\ Known = {"e"}
    /\ Before.exists

\* C3: when every requested code is a key of the registry's languages,
\* validate_languages returns the requested list itself: same length, same
\* elements, same order, duplicates kept.
ValidateReturnsList ==
    /\ (pc = "validate_languages" /\ HasLanguages
            /\ \A i \in 1..Len(Parsed) : Parsed[i] \in Known)
          => validate_languages(Parsed, regFile.data) = Return(Parsed)
    /\ pc \in {"mkdir", "nlp_config", "analyzer_config", "recognizers_config",
               "install_script"}
          => /\ languages = Parsed
             /\ \A i \in 1..Len(Parsed) : Parsed[i] \in Known

ValidateWitness ==
    /\ pc = "mkdir"
    /\ languages = <<"e", "e">>

ShebangLine == "#!/bin/sh"
SetELine == "set -e"
CompletionLine == "echo \"All models installed successfully\""
EchoLine(model, lang) == "echo \"Installing " \o model \o " for " \o lang \o "...\""
InstallLine(model, version) ==
    "poetry run pip install --no-cache-dir "
        \o "https://github.com/explosion/spacy-models/releases/download/"
        \o model \o "-" \o version \o "/" \o model \o "-" \o version
        \o "-py3-none-any.whl"

\* The j-th line of the install blocks of list L: block i holds the lines
\* 3i-2 (echo), 3i-1 (install command) and 3i (blank).
BlockLine(j, L, reg) ==
    LET i == ((j - 1) \div 3) + 1
        model == reg["languages"][L[i]]["model"]
    IN CASE (j - 1) % 3 = 0 -> EchoLine(model, L[i])
         [] (j - 1) % 3 = 1 -> InstallLine(model, reg["spacy_version"])
         [] OTHER -> ""

ScriptOf(prefix, L, reg) ==
    join("\n", prefix \o [j \in 1..(3 * Len(L)) |-> BlockLine(j, L, reg)]
                      \o <<CompletionLine>>)

\* C4: every written artifact lists the language codes in the order and
\* with the multiplicity of the validated list: supported_languages of the
\* analyzer and recognizers configs, every recognizer's per-language list,
\* lang_code of the NLP models, and the install blocks of the script.
OrderPreserved ==
    /\ NlpFile \in Written =>
          LET models == Doc(NlpFile).models
          IN [i \in 1..Len(models) |-> models[i].lang_code] = languages
    /\ AnalyzerFile \in Written =>
          Doc(AnalyzerFile).supported_languages = languages
    /\ RecognizersFile \in Written =>
          /\ Doc(RecognizersFile).supported_languages = languages
          /\ Len(Doc(RecognizersFile).recognizers) = 6
          /\ \A r \in 1..6 :
                Langs(Doc(RecognizersFile).recognizers[r].supported_languages)
                    = languages
    /\ InstallFile \in Written =>
          files[InstallFile].text
              = ScriptOf(<<ShebangLine, SetELine, "">>, languages, registry)
    /\ (Terminated /\ exitStatus = 0) => Written = FileNames

OrderWitness ==
    /\ Terminated
    /\ exitStatus = 0
    /\ languages = <<"d", "e">>

PhoneRecognizerName == "PhoneRecognizer"

\* C5: in the recognizers config the PhoneRecognizer entry of a language
\* has `context` exactly when the registry entry has `phone_context`, with
\* the registry's list as value; without it the entry has only `language`.
\* The entries of the five other recognizers never have `context`.
PhoneContextOmission ==
    RecognizersFile \in Written =>
        LET recs == Doc(RecognizersFile).recognizers
        IN /\ Cardinality({r \in 1..Len(recs) : recs[r].name = PhoneRecognizerName}) = 1
           /\ Cardinality({r \in 1..Len(recs) : recs[r].name # PhoneRecognizerName}) = 5
           /\ \A r \in 1..Len(recs) :
                 /\ Len(recs[r].supported_languages) = Len(languages)
                 /\ \A i \in 1..Len(languages) :
                       LET entry == recs[r].supported_languages[i]
                           conf == regFile.data["languages"][languages[i]]
                       IN IF recs[r].name = PhoneRecognizerName
                               /\ "phone_context" \in DOMAIN conf
                          THEN /\ DOMAIN entry = {"language", "context"}
                               /\ entry.context = conf["phone_context"]
                          ELSE DOMAIN entry = {"language"}

PhoneContextWitness ==
    /\ RecognizersFile \in Written
    /\ languages = <<"e", "d">>
    /\ "phone_context" \notin DOMAIN regFile.data["languages"]["e"]
    /\ "phone_context" \in DOMAIN regFile.data["languages"]["d"]

\* The entries of a --languages value, stated by positions: an entry lies
\* between two neighbouring cuts (a comma, or either end of the value).
Cuts(s) == {0, Len(s) + 1} \cup {i \in 1..Len(s) : s[i] = ","}
EntryAfter(s, c) ==
    LET next == CHOOSE d \in (c + 1)..(Len(s) + 1) :
                    /\ d = Len(s) + 1 \/ s[d] = ","
                    /\ \A x \in (c + 1)..(d - 1) : s[x] # ","
    IN SubSeq(s, c + 1, next - 1)
Trimmed(t) ==
    LET ink == {i \in 1..Len(t) : t[i] # " "}
    IN IF ink = {} THEN <<>>
       ELSE SubSeq(t, CHOOSE i \in ink : \A x \in ink : i <= x,
                      CHOOSE i \in ink : \A x \in ink : x <= i)
KeptCuts(s) == {c \in Cuts(s) \ {Len(s) + 1} : Trimmed(EntryAfter(s, c)) # <<>>}
RECURSIVE EntriesFrom(_, _)
EntriesFrom(s, cs) ==
    IF cs = {} THEN <<>>
    ELSE LET c == CHOOSE x \in cs : \A y \in cs : x <= y
         IN <<str(Trimmed(EntryAfter(s, c)))>> \o EntriesFrom(s, cs \ {c})
Entries(s) == EntriesFrom(s, KeptCuts(s))

\* C6: the --languages value is split on commas, each entry is trimmed,
\* the entries that are empty after trimming are dropped and the others keep
\* their order; an empty result ends the run with status 1 without reading
\* the registry and without writing a file.
LanguageArgumentParsing ==
    /\ pc \in {"registry_exists", "load_registry", "validate_languages"}
          => languages = Entries(raw)
    /\ pc \in {"registry_exists", "load_registry", "validate_languages"}
          => languages # <<>>
    /\ LET stopped == /\ pc \in {"parse_args", "done"}
                      /\ Terminated => exitStatus = 1
                      /\ NoRegistryRead
                      /\ NoMkdir
                      /\ NothingWritten
       IN stopped \/ Entries(raw) # <<>>

ParsingWitness ==
    /\ Terminated
    /\ error = "EmptyLanguageList"
    /\ raw = <<" ", ",", " ">>

\* C7: a missing registry ends the run with status 1 before any attempt to
\* read it, a malformed one ends it with status 1; neither writes a file nor
\* creates the output directory.  Status 0 is only reached with all four
\* files written.
RegistryFailuresTerminal ==
    /\ regFile.kind = "missing" => NoRegistryRead
    /\ ~Loaded
          => /\ Terminated => exitStatus = 1
             /\ NoMkdir
             /\ NothingWritten
             /\ pc \in {"parse_args", "registry_exists", "load_registry", "done"}
    /\ exitStatus = 0
          => /\ Terminated
             /\ Written = FileNames
             /\ DOMAIN files = FileNames

RegistryFailureWitness ==
    /\ Terminated
    /\ regFile.kind = "missing"
    /\ error = "RegistryNotFound"
    /\ Parsed # <<>>

WriteOrder == <<"mkdir", NlpFile, AnalyzerFile, RecognizersFile, InstallFile>>

\* C8: the directory is created, then the files are written in the order
\* nlp-config.yaml, analyzer-config.yaml, recognizers-config.yaml,
\* install-models.sh, each at most once per run.
FixedWriteOrder ==
    LET ops == SelectSeq(events, LAMBDA e : e # "open_registry")
    IN /\ Len(ops) <= Len(WriteOrder)
       /\ ops = SubSeq(WriteOrder, 1, Len(ops))

WriteOrderWitness ==
    /\ Terminated
    /\ SelectSeq(events, LAMBDA e : e # "open_registry") = WriteOrder

ExpectedFiles ==
    (NlpFile :> [kind |-> "yaml", doc |-> generate_nlp_config(Parsed, regFile.data).value])
    @@ (AnalyzerFile :> [kind |-> "yaml", doc |-> generate_analyzer_config(Parsed)])
    @@ (RecognizersFile :>
            [kind |-> "yaml", doc |-> generate_recognizers_config(Parsed, regFile.data)])
    @@ (InstallFile :>
            [kind |-> "text", text |-> generate_install_script(Parsed, regFile.data).value])

\* C9: a second run with the same arguments and registry leaves the output
\* files as the first run left them, whatever the directory held before;
\* the files of a successful run are determined by the language list and
\* the registry alone.
Idempotent ==
    /\ (Terminated /\ run >= 2) => files = history[2].files
    /\ (Terminated /\ exitStatus = 0) => files = ExpectedFiles

IdempotentWitness ==
    /\ Terminated
    /\ run = 2
    /\ exitStatus = 0
    /\ DOMAIN history[1].files = FileNames
    /\ history[2].files # history[1].files

ScriptInputsComplete ==
    /\ "spacy_version" \in DOMAIN registry
    /\ \A i \in 1..Len(languages) : "model" \in DOMAIN registry["languages"][languages[i]]

\* C10 as stated: the script is the shebang line and `set -e`, then three
\* lines per language (echo, install command, blank), then the completion
\* echo.
InstallScriptAsStated ==
    (pc = "install_script" /\ ScriptInputsComplete) =>
        \A n \in 0..Len(languages) :
            generate_install_script(SubSeq(languages, 1, n), registry).value
                = ScriptOf(<<ShebangLine, SetELine>>, SubSeq(languages, 1, n), registry)

\* C10 amended: the script is the shebang line, `set -e` and a blank line,
\* then three lines per language in order (echo naming model and code,
\* install command with the model's URL at the registry's spacy_version,
\* blank), then the completion echo as last line; with no language it is
\* those three prefix lines and the completion echo.
InstallScriptStructure ==
    /\ (pc = "install_script" /\ ScriptInputsComplete) =>
          \A n \in 0..Len(languages) :
              generate_install_script(SubSeq(languages, 1, n), registry)
                  = Return(ScriptOf(<<ShebangLine, SetELine, "">>,
                                    SubSeq(languages, 1, n), registry))
    /\ InstallFile \in Written =>
          files[InstallFile] = [kind |-> "text",
                                text |-> ScriptOf(<<ShebangLine, SetELine, "">>,
                                                  languages, registry)]

InstallScriptWitness ==
    /\ Terminated
    /\ InstallFile \in Written
    /\ languages = <<"e", "d">>

====
